---- MODULE Spec2Model ----
(***************************************************************************)
(* Kohonen self-organising map (src/kohonen.py): the classes Neuron and    *)
(* SOM, the metrics distorsion_locale_moyenne, compute_local_roughness and *)
(* carte_de_chaleur_distorsion, and the training loop of the main script.  *)
(*                                                                         *)
(* Numbers.  A real number r is held exactly as the integer r * Scale      *)
(* (fixed point, FracBits binary digits).  A Euclidean norm sqrt(q) is     *)
(* held as its radicand q (in units of 1/Scale^2): sqrt is strictly        *)
(* increasing, so order, equality, min and argmin of norms are those of    *)
(* the radicands, and squaring a norm gives the radicand back.  A quotient *)
(* is held as the pair <<numerator, denominator>>.                         *)
(*                                                                         *)
(* sigma is held as the integer r with 1/(2*sigma*sigma) = r*ln(2), so the *)
(* kernel exp(-dist/(2*sigma*sigma)) is exactly 2^(-r*dist).               *)
(*                                                                         *)
(* numpy arrays are objects: heap maps an address to the array's content,  *)
(* and Neuron.weights and the entries of SOM.weightsmap hold addresses.    *)
(***************************************************************************)
EXTENDS Integers, Sequences, FiniteSets, TLC

VARIABLES
  network,   \* the SOM object: inputsize, gridsize, map, weightsmap, activitymap
  heap,      \* numpy arrays by address
  hist,      \* the calls made on the network so far, oldest first, with their outcome
  pc,        \* position of the main script
  i,         \* loop variable of the training loop: the next value of range(N+1)
  N, ETA, SIGMA, samples,     \* parameters of the main script
  x          \* the sample of the current iteration

vars == <<network, heap, hist, pc, i, N, ETA, SIGMA, samples, x>>

\* ------------------------------------------------------------------ bounds
\* Binary digits kept after the point.
FracBits == 10
\* Largest number of rows and of columns of a grid.
MaxSide == 2
\* Largest number of weight components of a grid (rows * columns * D).
MaxCells == 4
\* Largest input dimension D.
MaxDim == 2
\* Largest number of calls made on one network in a behaviour of Spec.
MaxCalls == 2
\* Largest number of rows of a data set.
MaxSamples == 2
\* Largest iteration parameter N of a training run.
MaxN == 2

Scale == 2 ^ FracBits
One == Scale
Half == Scale \div 2

\* --------------------------------------------------------------- arithmetic
Max(a, b) == IF a >= b THEN a ELSE b

\* Product of two fixed-point numbers.
Mul(a, b) == (a * b) \div Scale
MulExact(a, b) == (a * b) % Scale = 0

\* numpy broadcasting of two 1-d arrays: equal lengths, or one of length 1.
Broadcastable(la, lb) == la = lb \/ la = 1 \/ lb = 1
At(v, k) == IF Len(v) = 1 THEN v[1] ELSE v[k]
BSub(a, b) == [k \in 1..Max(Len(a), Len(b)) |-> At(a, k) - At(b, k)]
BAdd(a, b) == [k \in 1..Max(Len(a), Len(b)) |-> At(a, k) + At(b, k)]
\* scalar * array
Scal(c, v) == [k \in 1..Len(v) |-> Mul(c, v[k])]

RECURSIVE SumSq(_)
SumSq(v) == IF v = <<>> THEN 0 ELSE v[1] * v[1] + SumSq(Tail(v))

\* numpy.linalg.norm(v): the norm sqrt(SumSq(v)), held as its radicand.
Norm(v) == SumSq(v)
\* n**2 for a norm n held as its radicand.
NormSq(n) == n

\* numpy.exp(-dist / (2 * sigma * sigma)) = 2^(-sigma*dist) in the encoding of sigma.
Kernel(dist, sigma) == Scale \div (2 ^ (sigma * dist))
KernelExact(dist, sigma) == sigma * dist <= FracBits

\* ------------------------------------------------------------------ Neuron
\* Neuron.__init__: the array w.flatten() lives at address a.
NeuronInit(a, posx, posy) == [weights |-> a, posx |-> posx, posy |-> posy, y |-> 0]

\* A state S of the program is [network, heap, exc, calls]: exc is the exception
\* raised ("none" when none), calls the Neuron.learn calls made so far.
H(S) == S.network.gridsize[1]
W(S) == S.network.gridsize[2]

\* Neuron.compute with "self.y += ..." for "self.y = ...".
NeuronComputeAcc(S, posx, posy, xx) ==
  LET n == S.network.map[posx][posy]
      w == S.heap[n.weights]
  IN  IF ~Broadcastable(Len(w), Len(xx))
        THEN [S EXCEPT !.exc = "ValueError"]
        ELSE [S EXCEPT !.network.map[posx][posy].y = @ + Norm(BSub(w, xx))]

\* Neuron.compute(x) on the unit at (posx, posy).
NeuronCompute(S, posx, posy, xx) ==
  LET n == S.network.map[posx][posy]
      w == S.heap[n.weights]
  IN  IF ~Broadcastable(Len(w), Len(xx))
        THEN [S EXCEPT !.exc = "ValueError"]
        ELSE [S EXCEPT !.network.map[posx][posy].y = Norm(BSub(w, xx))]

\* Neuron.learn with "self.weights = ..." for "self.weights[:] = ...": a new array
\* is bound to the neuron, the old one is left as it was.
NeuronLearnRebind(S, posx, posy, eta, sigma, posxjetoile, posyjetoile, xx) ==
  LET n == S.network.map[posx][posy]
      w == S.heap[n.weights]
      dist == (n.posx - posxjetoile) ^ 2 + (n.posy - posyjetoile) ^ 2
      h == Kernel(dist, sigma)
      call == [posx |-> posx, posy |-> posy, eta |-> eta, sigma |-> sigma,
               jetoilex |-> posxjetoile, jetoiley |-> posyjetoile, x |-> xx]
      S1 == [S EXCEPT !.calls = Append(@, call)]
  IN  IF ~Broadcastable(Len(xx), Len(w))
        THEN [S1 EXCEPT !.exc = "ValueError"]
        ELSE [S1 EXCEPT !.heap = Append(@, BAdd(w, Scal(Mul(eta, h), BSub(xx, w)))),
                        !.network.map[posx][posy].weights = Len(S.heap) + 1]

\* Neuron.learn with the sign of the correction reversed.
NeuronLearnAway(S, posx, posy, eta, sigma, posxjetoile, posyjetoile, xx) ==
  LET n == S.network.map[posx][posy]
      w == S.heap[n.weights]
      dist == (n.posx - posxjetoile) ^ 2 + (n.posy - posyjetoile) ^ 2
      h == Kernel(dist, sigma)
      call == [posx |-> posx, posy |-> posy, eta |-> eta, sigma |-> sigma,
               jetoilex |-> posxjetoile, jetoiley |-> posyjetoile, x |-> xx]
      S1 == [S EXCEPT !.calls = Append(@, call)]
  IN  IF ~Broadcastable(Len(xx), Len(w))
        THEN [S1 EXCEPT !.exc = "ValueError"]
        ELSE LET rhs == BSub(w, Scal(Mul(eta, h), BSub(xx, w)))
             IN  IF Len(rhs) # Len(w)
                   THEN [S1 EXCEPT !.exc = "ValueError"]
                   ELSE [S1 EXCEPT !.heap[n.weights] = rhs]

\* Neuron.learn(eta, sigma, posxjetoile, posyjetoile, x) on the unit at (posx, posy).
NeuronLearn(S, posx, posy, eta, sigma, posxjetoile, posyjetoile, xx) ==
  LET n == S.network.map[posx][posy]
      w == S.heap[n.weights]
      dist == (n.posx - posxjetoile) ^ 2 + (n.posy - posyjetoile) ^ 2
      h == Kernel(dist, sigma)
      call == [posx |-> posx, posy |-> posy, eta |-> eta, sigma |-> sigma,
               jetoilex |-> posxjetoile, jetoiley |-> posyjetoile, x |-> xx]
      S1 == [S EXCEPT !.calls = Append(@, call)]
  IN  IF ~Broadcastable(Len(xx), Len(w))
        THEN [S1 EXCEPT !.exc = "ValueError"]
        ELSE LET rhs == BAdd(w, Scal(Mul(eta, h), BSub(xx, w)))
             IN  IF Len(rhs) # Len(w)
                   THEN [S1 EXCEPT !.exc = "ValueError"]
                   ELSE [S1 EXCEPT !.heap[n.weights] = rhs]

\* The fixed-point products of that call lose no digit.
NeuronLearnExact(S, posx, posy, eta, sigma, posxjetoile, posyjetoile, xx) ==
  LET n == S.network.map[posx][posy]
      w == S.heap[n.weights]
      dist == (n.posx - posxjetoile) ^ 2 + (n.posy - posyjetoile) ^ 2
      d == BSub(xx, w)
  IN  /\ Broadcastable(Len(xx), Len(w))
      /\ KernelExact(dist, sigma)
      /\ MulExact(eta, Kernel(dist, sigma))
      /\ \A k \in 1..Len(d) : MulExact(Mul(eta, Kernel(dist, sigma)), d[k])

\* --------------------------------------------------------------------- SOM
Rows(gridsize) == 0..(gridsize[1] - 1)
Cols(gridsize) == 0..(gridsize[2] - 1)

\* The address of the weight array of the unit created at (posx, posy).
Addr(gridsize, posx, posy) == posx * gridsize[2] + posy + 1

\* SOM.__init__(inputsize, gridsize), the random weights being w0[posx][posy].
SOMInit(inputsize, gridsize, w0) ==
  [network |->
     [inputsize |-> inputsize,
      gridsize |-> gridsize,
      map |-> [posx \in Rows(gridsize) |-> [posy \in Cols(gridsize) |->
                 NeuronInit(Addr(gridsize, posx, posy), posx, posy)]],
      weightsmap |-> [posx \in Rows(gridsize) |-> [posy \in Cols(gridsize) |->
                 Addr(gridsize, posx, posy)]],
      activitymap |-> [posx \in Rows(gridsize) |-> [posy \in Cols(gridsize) |-> 0]]],
   heap |-> [a \in 1..(gridsize[1] * gridsize[2]) |->
               w0[(a - 1) \div gridsize[2]][(a - 1) % gridsize[2]]],
   exc |-> "none",
   calls |-> <<>>]

\* SOM.compute(x): the two nested loops from the unit of flat index k on.
RECURSIVE ComputeLoop(_, _, _)
ComputeLoop(S, xx, k) ==
  IF k >= H(S) * W(S) THEN S
  ELSE LET posx == k \div W(S)
           posy == k % W(S)
           S1 == NeuronCompute(S, posx, posy, xx)
       IN  IF S1.exc # "none" THEN S1
           ELSE ComputeLoop(
                  [S1 EXCEPT !.network.activitymap[posx][posy] =
                                S1.network.map[posx][posy].y], xx, k + 1)

\* SOM.compute without line 116: the units' y change, activitymap does not.
SOMComputeStale(S, xx) ==
  [ComputeLoop(S, xx, 0) EXCEPT !.network.activitymap = S.network.activitymap]

SOMCompute(S, xx) == ComputeLoop(S, xx, 0)

\* activitymap in C order, as numpy.argmin and numpy.min read it.
Flat(S) == [k \in 1..(H(S) * W(S)) |->
              S.network.activitymap[(k - 1) \div W(S)][(k - 1) % W(S)]]

\* numpy.min
Min(f) == CHOOSE m \in {f[k] : k \in DOMAIN f} : \A k \in DOMAIN f : m <= f[k]

\* An argmin that returns the last occurrence of the minimum.
ArgminLast(f) == (CHOOSE k \in DOMAIN f :
                    /\ \A l \in DOMAIN f : f[k] <= f[l]
                    /\ \A l \in DOMAIN f : l > k => f[l] # f[k]) - 1

\* numpy.argmin: the 0-based index of the first occurrence of the minimum.
Argmin(f) == (CHOOSE k \in DOMAIN f :
                /\ \A l \in DOMAIN f : f[k] <= f[l]
                /\ \A l \in DOMAIN f : l < k => f[l] # f[k]) - 1

\* numpy.unravel_index(k, gridsize)
UnravelIndex(k, gridsize) == <<k \div gridsize[2], k % gridsize[2]>>

\* SOM.learn, line 129: the winner.
Winner(S) == UnravelIndex(Argmin(Flat(S)), S.network.gridsize)

\* SOM.learn, lines 131-133: the two nested loops from the unit of flat index k on.
RECURSIVE LearnLoop(_, _, _, _, _, _)
LearnLoop(S, eta, sigma, jetoile, xx, k) ==
  IF k >= H(S) * W(S) THEN S
  ELSE LET S1 == NeuronLearn(S, k \div W(S), k % W(S), eta, sigma,
                             jetoile[1], jetoile[2], xx)
       IN  IF S1.exc # "none" THEN S1
           ELSE LearnLoop(S1, eta, sigma, jetoile, xx, k + 1)

\* SOM.learn with the winner looked up again, from fresh activities, for each unit.
RECURSIVE LearnLoopAgain(_, _, _, _, _)
LearnLoopAgain(S, eta, sigma, xx, k) ==
  IF k >= H(S) * W(S) THEN S
  ELSE LET c == SOMCompute(S, xx)
           jetoile == Winner(IF c.exc = "none" THEN c ELSE S)
           S1 == NeuronLearn(S, k \div W(S), k % W(S), eta, sigma,
                             jetoile[1], jetoile[2], xx)
       IN  IF S1.exc # "none" THEN S1
           ELSE LearnLoopAgain(S1, eta, sigma, xx, k + 1)

SOMLearnAgain(S, eta, sigma, xx) == LearnLoopAgain(S, eta, sigma, xx, 0)

SOMLearn(S, eta, sigma, xx) == LearnLoop(S, eta, sigma, Winner(S), xx, 0)

\* Every product of that call of SOM.learn is exact (each unit's update reads only
\* its own weights, so the state on entry decides it).
SOMLearnExact(S, eta, sigma, xx) ==
  \A k \in 0..(H(S) * W(S) - 1) :
    LET w == S.heap[S.network.map[k \div W(S)][k % W(S)].weights]
    IN  \/ ~Broadcastable(Len(xx), Len(w))
        \/ Len(xx) > Len(w)
        \/ NeuronLearnExact(S, k \div W(S), k % W(S), eta, sigma,
                            Winner(S)[1], Winner(S)[2], xx)

\* SOM.quantification(X), lines 237-241: the loop from row k of X on, s being the sum.
RECURSIVE QuantLoop(_, _, _, _)
QuantLoop(S, X, k, s) ==
  IF k > Len(X) THEN [S |-> S, s |-> s]
  ELSE LET S1 == SOMCompute(S, X[k])
       IN  IF S1.exc # "none" THEN [S |-> S1, s |-> s]
           ELSE QuantLoop(S1, X, k + 1, s + NormSq(Min(Flat(S1))))

\* SOM.quantification(X): the state it leaves and the value it returns (s/nsamples).
SOMQuantification(S, X) ==
  LET nsamples == Len(X)
      r == QuantLoop(S, X, 1, 0)
  IN  IF r.S.exc # "none" THEN [S |-> r.S, ret |-> <<>>]
      ELSE IF nsamples = 0
        THEN [S |-> [r.S EXCEPT !.exc = "ZeroDivisionError"], ret |-> <<>>]
        ELSE [S |-> r.S, ret |-> << <<r.s, nsamples>> >>]

\* ----------------------------------------------------------------- metrics
\* numpy.array(network.weightsmap): the weights read through weightsmap.
WeightArray(S) ==
  [posx \in Rows(S.network.gridsize) |-> [posy \in Cols(S.network.gridsize) |->
     S.heap[S.network.weightsmap[posx][posy]]]]

\* numpy.linalg.norm(a - b)**2
SqDist(a, b) == NormSq(Norm(BSub(a, b)))

\* distorsion_locale_moyenne, lines 254-263: the loops from flat index k on.
RECURSIVE DistorsionLoop(_, _, _, _, _)
DistorsionLoop(w, gridsize, k, total, count) ==
  IF k >= gridsize[1] * gridsize[2] THEN <<total, count>>
  ELSE LET ii == k \div gridsize[2]
           jj == k % gridsize[2]
           current == w[ii][jj]
           down == ii + 1 < gridsize[1]
           right == jj + 1 < gridsize[2]
           t1 == IF down THEN total + SqDist(current, w[ii + 1][jj]) ELSE total
           c1 == IF down THEN count + 1 ELSE count
           t2 == IF right THEN t1 + SqDist(current, w[ii][jj + 1]) ELSE t1
           c2 == IF right THEN c1 + 1 ELSE c1
       IN  DistorsionLoop(w, gridsize, k + 1, t2, c2)

\* distorsion_locale_moyenne with the guard of compute_local_roughness.
distorsion_guarded(S) ==
  LET r == DistorsionLoop(WeightArray(S), S.network.gridsize, 0, 0, 0)
  IN  [exc |-> "none", ret |-> << IF r[2] > 0 THEN <<r[1], r[2]>> ELSE <<0, 1>> >>]

\* distorsion_locale_moyenne(network): [exc, ret], ret the quotient total / count.
distorsion_locale_moyenne(S) ==
  LET r == DistorsionLoop(WeightArray(S), S.network.gridsize, 0, 0, 0)
  IN  IF r[2] = 0 THEN [exc |-> "ZeroDivisionError", ret |-> <<>>]
      ELSE [exc |-> "none", ret |-> << <<r[1], r[2]>> >>]

\* The list neighbors without the line of the upper neighbour.
NeighborsNoUp(weight_grid, height, width, ii, jj) ==
  (IF ii < height - 1 THEN <<weight_grid[ii + 1][jj]>> ELSE <<>>)
  \o (IF jj > 0 THEN <<weight_grid[ii][jj - 1]>> ELSE <<>>)
  \o (IF jj < width - 1 THEN <<weight_grid[ii][jj + 1]>> ELSE <<>>)

\* The list neighbors of compute_local_roughness (lines 285-291) for unit (ii, jj).
Neighbors(weight_grid, height, width, ii, jj) ==
  (IF ii > 0 THEN <<weight_grid[ii - 1][jj]>> ELSE <<>>)
  \o (IF ii < height - 1 THEN <<weight_grid[ii + 1][jj]>> ELSE <<>>)
  \o (IF jj > 0 THEN <<weight_grid[ii][jj - 1]>> ELSE <<>>)
  \o (IF jj < width - 1 THEN <<weight_grid[ii][jj + 1]>> ELSE <<>>)

\* Lines 294-297: the sum of the squared distances from w_ij to its neighbors.
RECURSIVE SumDist(_, _)
SumDist(w_ij, neighbors) ==
  IF neighbors = <<>> THEN 0
  ELSE SqDist(w_ij, Head(neighbors)) + SumDist(w_ij, Tail(neighbors))

\* compute_local_roughness, lines 282-297: the loops from flat index k on.
RECURSIVE RoughnessLoop(_, _, _, _, _, _)
RoughnessLoop(weight_grid, height, width, k, total_roughness, count) ==
  IF k >= height * width THEN <<total_roughness, count>>
  ELSE LET nb == Neighbors(weight_grid, height, width, k \div width, k % width)
       IN  RoughnessLoop(weight_grid, height, width, k + 1,
             total_roughness + SumDist(weight_grid[k \div width][k % width], nb),
             count + Len(nb))

\* compute_local_roughness(weight_grid): the value returned, the literal 0 being 0/1.
compute_local_roughness(weight_grid) ==
  LET height == Cardinality(DOMAIN weight_grid)
      width == Cardinality(DOMAIN weight_grid[0])
      r == RoughnessLoop(weight_grid, height, width, 0, 0, 0)
  IN  IF r[2] > 0 THEN <<r[1], r[2]>> ELSE <<0, 1>>

\* carte_de_chaleur_distorsion, lines 417-431: the cell heatmap[ii][jj].
HeatCell(w, gridsize, ii, jj) ==
  LET up == ii > 0
      down == ii < gridsize[1] - 1
      left == jj > 0
      right == jj < gridsize[2] - 1
      dist == (IF up THEN SqDist(w[ii][jj], w[ii - 1][jj]) ELSE 0)
              + (IF down THEN SqDist(w[ii][jj], w[ii + 1][jj]) ELSE 0)
              + (IF left THEN SqDist(w[ii][jj], w[ii][jj - 1]) ELSE 0)
              + (IF right THEN SqDist(w[ii][jj], w[ii][jj + 1]) ELSE 0)
      count == (IF up THEN 1 ELSE 0) + (IF down THEN 1 ELSE 0)
               + (IF left THEN 1 ELSE 0) + (IF right THEN 1 ELSE 0)
  IN  IF count > 0 THEN <<dist, count>> ELSE <<0, 1>>

\* carte_de_chaleur_distorsion(network): the array heatmap, in C order.
carte_de_chaleur_distorsion(S) ==
  [k \in 1..(H(S) * W(S)) |->
     HeatCell(WeightArray(S), S.network.gridsize, (k - 1) \div W(S), (k - 1) % W(S))]

\* ------------------------------------------------------------ construction
\* The number D of weight components: the size of numpy.random.random(inputsize).flatten().
Dim(inputsize) == inputsize[1] * inputsize[2]
D == Dim(network.inputsize)

Grids(d) == {g \in (1..MaxSide) \X (1..MaxSide) : g[1] * g[2] * d <= MaxCells}

\* Values of numpy.random.random, in [0, 1).
InitValues == {0, Half}
MetricValues == {0, Scale \div 4, Half}

\* network = SOM(inputsize, gridsize) with weights drawn from values.
Construct(values) ==
  \E d \in 1..MaxDim : \E g \in Grids(d) :
    \E w0 \in [Rows(g) -> [Cols(g) -> [1..d -> values]]] :
      LET S0 == SOMInit(<<d, 1>>, g, w0)
      IN  network = S0.network /\ heap = S0.heap

\* Inputs offered to a network of dimension d: the vectors of d zeros and of d ones,
\* and the vector of ones of each other length up to d + 1.
Const(n, v) == [k \in 1..n |-> v]
Inputs(d) == {Const(d, 0)} \cup {Const(n, One) : n \in 1..(d + 1)}

\* Data sets offered to SOM.quantification (numpy arrays: the rows have one length).
Datasets(d) ==
  {<<>>} \cup {[k \in 1..MaxSamples |-> IF k = 1 THEN Const(d, 0) ELSE Const(d, One)]}
         \cup {<<Const(d + 1, One)>>}

Etas == {Half, One}
Sigmas == {1}

\* ------------------------------------------------------------------- calls
Cur == [network |-> network, heap |-> heap, exc |-> "none", calls |-> <<>>]

\* The record of one call: its arguments, the exception it raised, the value it
\* returned, the Neuron.learn calls it made and activitymap (in C order) as it left it.
Entry(op, xx, X, eta, sigma, S, ret) ==
  [op |-> op, x |-> xx, X |-> X, eta |-> eta, sigma |-> sigma,
   exc |-> S.exc, ret |-> ret, calls |-> S.calls, am |-> Flat(S)]

\* network.compute(xx)
CallCompute(xx) ==
  LET S2 == SOMCompute(Cur, xx)
  IN  /\ network' = S2.network
      /\ heap' = S2.heap
      /\ hist' = Append(hist, Entry("compute", xx, <<>>, 0, 0, S2, <<>>))

\* network.learn(eta, sigma, xx)
CallLearn(eta, sigma, xx) ==
  LET S2 == SOMLearn(Cur, eta, sigma, xx)
  IN  /\ network' = S2.network
      /\ heap' = S2.heap
      /\ hist' = Append(hist, Entry("learn", xx, <<>>, eta, sigma, S2, <<>>))

\* network.quantification(X)
CallQuantification(X) ==
  LET r == SOMQuantification(Cur, X)
  IN  /\ network' = r.S.network
      /\ heap' = r.S.heap
      /\ hist' = Append(hist, Entry("quantification", <<>>, X, 0, 0, r.S, r.ret))

\* distorsion_locale_moyenne(network)
CallDistorsion ==
  LET r == distorsion_locale_moyenne(Cur)
  IN  /\ UNCHANGED <<network, heap>>
      /\ hist' = Append(hist, Entry("distorsion", <<>>, <<>>, 0, 0, [Cur EXCEPT !.exc = r.exc], r.ret))

\* compute_local_roughness(numpy.array(network.weightsmap))
CallRoughness ==
  /\ UNCHANGED <<network, heap>>
  /\ hist' = Append(hist, Entry("roughness", <<>>, <<>>, 0, 0, Cur,
                                 <<compute_local_roughness(WeightArray(Cur))>>))

\* carte_de_chaleur_distorsion(network)
CallHeatmap ==
  /\ UNCHANGED <<network, heap>>
  /\ hist' = Append(hist, Entry("heatmap", <<>>, <<>>, 0, 0, Cur,
                                 carte_de_chaleur_distorsion(Cur)))

main == <<pc, i, N, ETA, SIGMA, samples, x>>

\* ------------------------------------------ Spec: any sequence of SOM calls
Init ==
  /\ Construct(InitValues)
  /\ hist = <<>>
  /\ pc = "api" /\ i = 0 /\ N = 0 /\ ETA = 0 /\ SIGMA = 0 /\ samples = <<>> /\ x = <<>>

Compute ==
  /\ pc = "api" /\ Len(hist) < MaxCalls
  /\ \E xx \in Inputs(D) : CallCompute(xx)
  /\ UNCHANGED main

Learn ==
  /\ pc = "api" /\ Len(hist) < MaxCalls
  /\ \E eta \in Etas : \E sigma \in Sigmas :
       \E xx \in {v \in Inputs(D) : SOMLearnExact(Cur, eta, sigma, v)} :
         CallLearn(eta, sigma, xx)
  /\ UNCHANGED main

Quantification ==
  /\ pc = "api" /\ Len(hist) < MaxCalls
  /\ \E X \in Datasets(D) : CallQuantification(X)
  /\ UNCHANGED main

Next == Compute \/ Learn \/ Quantification

Spec == Init /\ [][Next]_vars

\* ------------------------------- SpecMetrics: the metrics of a fresh network
InitMetrics ==
  /\ Construct(MetricValues)
  /\ hist = <<>>
  /\ pc = "metrics" /\ i = 0 /\ N = 0 /\ ETA = 0 /\ SIGMA = 0 /\ samples = <<>> /\ x = <<>>

Distorsion == pc = "metrics" /\ Len(hist) < MaxCalls /\ CallDistorsion /\ UNCHANGED main

Roughness == pc = "metrics" /\ Len(hist) < MaxCalls /\ CallRoughness /\ UNCHANGED main

Heatmap == pc = "metrics" /\ Len(hist) < MaxCalls /\ CallHeatmap /\ UNCHANGED main

NextMetrics == Distorsion \/ Roughness \/ Heatmap

SpecMetrics == InitMetrics /\ [][NextMetrics]_vars

\* ------------------------------------------- SpecTrain: the main script
\* Data sets of the main script: rows of dimension d, at least one row.
TrainSets(d) ==
  {[k \in 1..n |-> IF k % 2 = 1 THEN Const(d, One) ELSE Const(d, 0)] : n \in 1..MaxSamples}

\* Binary digits one call of SOM.learn adds to the weights of a grid g.
LearnBits(g, eta, sigma) ==
  (IF eta = One THEN 0 ELSE 1) + sigma * ((g[1] - 1) ^ 2 + (g[2] - 1) ^ 2)

\* range(N) for range(N+1).
RangeLenShort(n) == n

\* range(N+1), line 377: the number of values it yields.
RangeLen(n) == n + 1

\* Lines 307-325: the network, the parameters and the data set, such that the
\* whole run stays within FracBits digits.
InitTrain ==
  /\ Construct(InitValues)
  /\ hist = <<>>
  /\ pc = "for" /\ i = 0 /\ x = <<>>
  /\ N \in 0..MaxN
  /\ ETA \in Etas
  /\ SIGMA \in {1, 2}
  /\ samples \in TrainSets(D)
  /\ 1 + RangeLen(N) * LearnBits(network.gridsize, ETA, SIGMA) <= FracBits

\* Lines 377-380: the loop yields its next value and draws a sample.
ForNext ==
  /\ pc = "for" /\ i < RangeLen(N)
  /\ \E index \in 1..Len(samples) : x' = samples[index]
  /\ i' = i + 1
  /\ pc' = "compute"
  /\ UNCHANGED <<network, heap, hist, N, ETA, SIGMA, samples>>

\* Line 377: range(N+1) is exhausted, the loop ends.
ForExit ==
  /\ pc = "for" /\ i >= RangeLen(N)
  /\ pc' = "quantification"
  /\ UNCHANGED <<network, heap, hist, i, N, ETA, SIGMA, samples, x>>

After(next) == IF hist'[Len(hist')].exc = "none" THEN next ELSE "crashed"

\* Line 382
MainCompute ==
  /\ pc = "compute"
  /\ CallCompute(x)
  /\ pc' = After("learn")
  /\ UNCHANGED <<i, N, ETA, SIGMA, samples, x>>

\* Line 384
MainLearn ==
  /\ pc = "learn"
  /\ CallLearn(ETA, SIGMA, x)
  /\ pc' = After("for")
  /\ UNCHANGED <<i, N, ETA, SIGMA, samples, x>>

\* Line 405
MainQuantification ==
  /\ pc = "quantification"
  /\ CallQuantification(samples)
  /\ pc' = After("distorsion")
  /\ UNCHANGED <<i, N, ETA, SIGMA, samples, x>>

\* Line 406
MainDistorsion ==
  /\ pc = "distorsion"
  /\ CallDistorsion
  /\ pc' = After("roughness")
  /\ UNCHANGED <<i, N, ETA, SIGMA, samples, x>>

\* Line 407
MainRoughness ==
  /\ pc = "roughness"
  /\ CallRoughness
  /\ pc' = After("heatmap")
  /\ UNCHANGED <<i, N, ETA, SIGMA, samples, x>>

\* Line 444
MainHeatmap ==
  /\ pc = "heatmap"
  /\ CallHeatmap
  /\ pc' = After("end")
  /\ UNCHANGED <<i, N, ETA, SIGMA, samples, x>>

NextTrain ==
  \/ ForNext \/ ForExit \/ MainCompute \/ MainLearn
  \/ MainQuantification \/ MainDistorsion \/ MainRoughness \/ MainHeatmap

SpecTrain == InitTrain /\ [][NextTrain]_vars

\* -------------------------------------------------------------- properties
Last == hist[Len(hist)]
Positions == Rows(network.gridsize) \X Cols(network.gridsize)
Units == network.gridsize[1] * network.gridsize[2]
\* The index in C order (from 1) of position p.
Index(p) == p[1] * network.gridsize[2] + p[2] + 1
Ok(e) == e.exc = "none"

\* p comes no later than q in row-major order.
RowMajorLeq(p, q) == p[1] < q[1] \/ (p[1] = q[1] /\ p[2] <= q[2])

\* p holds the minimum of activitymap and is the first position in row-major order to.
IsFirstMinimum(p) ==
  /\ p \in Positions
  /\ \A q \in Positions :
       /\ network.activitymap[p[1]][p[2]] <= network.activitymap[q[1]][q[2]]
       /\ network.activitymap[q[1]][q[2]] = network.activitymap[p[1]][p[2]]
            => RowMajorLeq(p, q)

\* The winner the call of SOM.learn recorded in e handed to Neuron.learn.
Jetoile(e) == <<e.calls[1].jetoilex, e.calls[1].jetoiley>>

\* The last two calls were compute, with an input of the right dimension, and learn.
AfterComputeLearn ==
  /\ Len(hist) >= 2
  /\ hist[Len(hist) - 1].op = "compute" /\ Ok(hist[Len(hist) - 1])
  /\ Len(hist[Len(hist) - 1].x) = D
  /\ Last.op = "learn" /\ Last.calls # <<>>

\* C1: after SOM.compute on an input of dimension D, the winner SOM.learn derives from
\* activitymap holds the minimum of activitymap and, among the units that hold it, is
\* the first in row-major order.
C1_Winner == AfterComputeLearn => IsFirstMinimum(Jetoile(Last))

\* C1 on a 2x2 grid where the lower-left and the upper-right unit tie at the minimum.
C1_Witness ==
  /\ AfterComputeLearn
  /\ network.gridsize = <<2, 2>>
  /\ Jetoile(Last) = <<0, 1>>
  /\ network.activitymap[1][0] = network.activitymap[0][1]
  /\ network.activitymap[0][0] > network.activitymap[0][1]

\* C2: after construction and between any calls of compute, learn and quantification,
\* activitymap[i][j] equals map[i][j].y for every position; both are 0 after construction.
C2_CacheInSync ==
  /\ \A p \in Positions : network.activitymap[p[1]][p[2]] = network.map[p[1]][p[2]].y
  /\ hist = <<>> => \A p \in Positions : network.activitymap[p[1]][p[2]] = 0

\* C2 after a learn and then a quantification over at least two units.
C2_Witness ==
  /\ Len(hist) = 2 /\ Ok(Last) /\ Last.op = "quantification"
  /\ hist[1].op = "learn" /\ Ok(hist[1])
  /\ Units >= 2
  /\ \E p \in Positions : network.activitymap[p[1]][p[2]] > 0

\* C3: one call of SOM.learn(eta, sigma, x) that returns takes the winner once, from
\* activitymap as it is on entry, and calls Neuron.learn exactly once on each of the
\* height*width units, every time with that winner and the same eta, sigma and x; each
\* unit ends with the weights one Neuron.learn with the entry winner gives it.
C3_LearnStep ==
  [][(/\ Len(hist') = Len(hist) + 1
      /\ hist'[Len(hist')].op = "learn"
      /\ Ok(hist'[Len(hist')]))
     => LET e == hist'[Len(hist')]
            p == CHOOSE q \in Positions : IsFirstMinimum(q)
        IN  /\ Len(e.calls) = Units
            /\ \A q \in Positions :
                 Cardinality({k \in 1..Len(e.calls) :
                                e.calls[k].posx = q[1] /\ e.calls[k].posy = q[2]}) = 1
            /\ \A k \in 1..Len(e.calls) :
                 /\ e.calls[k].jetoilex = p[1] /\ e.calls[k].jetoiley = p[2]
                 /\ e.calls[k].eta = e.eta /\ e.calls[k].sigma = e.sigma
                 /\ e.calls[k].x = e.x
            /\ \A q \in Positions :
                 heap'[network'.map[q[1]][q[2]].weights] =
                   NeuronLearn(Cur, q[1], q[2], e.eta, e.sigma, p[1], p[2], e.x)
                     .heap[network.map[q[1]][q[2]].weights]]_vars

\* C3 after a learn on a 2x2 grid whose winner is not the first unit and which moved
\* the first unit.
C3_Witness ==
  /\ hist # <<>> /\ Last.op = "learn" /\ Ok(Last)
  /\ network.gridsize = <<2, 2>>
  /\ Len(Last.calls) = 4
  /\ Jetoile(Last) # <<0, 0>>
  /\ heap[network.map[0][0].weights][1] \notin InitValues

\* The calls of compute and learn, in order.
LoopCalls == SelectSeq(hist, LAMBDA e : e.op \in {"compute", "learn"})
LoopDone == pc \notin {"for", "compute", "learn"}

\* The loop has ended after exactly N+1 passes, each one compute(x) then
\* learn(ETA, SIGMA, x) on the same sample.
LoopRanInFull ==
  /\ Len(LoopCalls) = 2 * (N + 1)
  /\ \A k \in 1..(N + 1) :
       /\ LoopCalls[2 * k - 1].op = "compute" /\ Ok(LoopCalls[2 * k - 1])
       /\ LoopCalls[2 * k].op = "learn" /\ Ok(LoopCalls[2 * k])
       /\ LoopCalls[2 * k].x = LoopCalls[2 * k - 1].x
       /\ LoopCalls[2 * k].eta = ETA /\ LoopCalls[2 * k].sigma = SIGMA

Reactivated(k) ==
  /\ k >= 3 /\ k <= Len(hist)
  /\ hist[k - 2].op = "compute" /\ hist[k - 1].op = "learn" /\ hist[k].op = "compute"
  /\ Ok(hist[k - 2]) /\ Ok(hist[k - 1]) /\ Ok(hist[k])
  /\ hist[k - 1].x = hist[k - 2].x /\ hist[k].x = hist[k - 2].x
  /\ Len(hist[k].x) = D
  /\ hist[k - 1].eta > 0 /\ hist[k - 1].eta <= One /\ hist[k - 1].sigma > 0

\* The winner's activation before (call k-2) and after (call k) the learn step.
Before(k) == hist[k - 2].am[Index(Jetoile(hist[k - 1]))]
Again(k) == hist[k].am[Index(Jetoile(hist[k - 1]))]

\* C5 as stated: re-activating with the same x after a learn step gives the winner an
\* activation strictly smaller than before the step.
C5_StrictDecrease == \A k \in 1..Len(hist) : Reactivated(k) => Again(k) < Before(k)

\* C5 amended: the winner's activation is strictly smaller than before when it was not
\* zero, and is still zero when it was zero (the winner's weights equal x already).
C5_Amended ==
  \A k \in 1..Len(hist) :
    Reactivated(k) => IF Before(k) = 0 THEN Again(k) = 0 ELSE Again(k) < Before(k)

\* C5 where the winner was at a distance from x and eta is 1/2.
C5_Witness ==
  \E k \in 1..Len(hist) :
    Reactivated(k) /\ hist[k - 1].eta = Half /\ Before(k) > 0 /\ Again(k) > 0
      /\ Again(k) < Before(k)

\* C6: a second SOM.compute with the same input right after a first one leaves
\* activitymap and every unit's y as the first left them, and changes no weight.
C6_Idempotent ==
  [][(/\ hist # <<>> /\ Last.op = "compute" /\ Ok(Last)
      /\ Len(hist') = Len(hist) + 1
      /\ hist'[Len(hist')].op = "compute"
      /\ hist'[Len(hist')].x = Last.x)
     => /\ Ok(hist'[Len(hist')])
        /\ network'.activitymap = network.activitymap
        /\ network'.map = network.map
        /\ heap' = heap]_vars

\* C6 after two computes of one input on several units with a non-zero activity.
C6_Witness ==
  /\ Len(hist) >= 2
  /\ Last.op = "compute" /\ Ok(Last)
  /\ hist[Len(hist) - 1].op = "compute" /\ hist[Len(hist) - 1].x = Last.x
  /\ Units >= 2
  /\ \E p \in Positions : network.activitymap[p[1]][p[2]] > 0

\* C7: SOM.compute raises for every input whose length differs from D, and then
\* activitymap is as the call before left it.
C7_DimensionMismatch ==
  \A k \in 1..Len(hist) :
    (hist[k].op = "compute" /\ Len(hist[k].x) # D)
      => /\ ~Ok(hist[k])
         /\ hist[k].am = IF k = 1 THEN [q \in 1..Units |-> 0] ELSE hist[k - 1].am

RatNonNeg(q) == q[2] > 0 /\ q[1] >= 0
RatZero(q) == q[2] > 0 /\ q[1] = 0
RatEq(q, r) == q[1] * r[2] = r[1] * q[2]

\* C8: compute_local_roughness and every cell of the heatmap are >= 0, and exactly 0 on
\* a 1x1 grid; distorsion_locale_moyenne on a 1x1 grid raises a division by zero.
C8_Metrics ==
  \A k \in 1..Len(hist) :
    /\ hist[k].op = "roughness"
         => /\ Ok(hist[k]) /\ RatNonNeg(hist[k].ret[1])
            /\ network.gridsize = <<1, 1>> => RatZero(hist[k].ret[1])
    /\ hist[k].op = "heatmap"
         => /\ Ok(hist[k]) /\ Len(hist[k].ret) = Units
            /\ \A c \in 1..Units : RatNonNeg(hist[k].ret[c])
            /\ network.gridsize = <<1, 1>> => RatZero(hist[k].ret[1])
    /\ (hist[k].op = "distorsion" /\ network.gridsize = <<1, 1>>)
         => hist[k].exc = "ZeroDivisionError"

\* C8 on a 1x1 grid on which distorsion_locale_moyenne and one of the others were called.
C8_Witness ==
  /\ network.gridsize = <<1, 1>>
  /\ Len(hist) = 2
  /\ hist[1].op \in {"roughness", "heatmap"} /\ hist[2].op = "distorsion"

\* C9: after construction and between any calls, weightsmap[i][j] holds the values of
\* map[i][j].weights, the grid has its gridsize[0]*gridsize[1] units, each at the
\* position of its indices, and every weight vector has length D.
C9_Structure ==
  /\ DOMAIN network.map = Rows(network.gridsize)
  /\ \A posx \in Rows(network.gridsize) :
       DOMAIN network.map[posx] = Cols(network.gridsize)
  /\ \A p \in Positions :
       /\ network.map[p[1]][p[2]].posx = p[1]
       /\ network.map[p[1]][p[2]].posy = p[2]
       /\ heap[network.weightsmap[p[1]][p[2]]] = heap[network.map[p[1]][p[2]].weights]
       /\ Len(heap[network.map[p[1]][p[2]].weights]) = D

\* C9 after a learn that moved the weights of a unit of a grid of several units.
C9_Witness ==
  /\ Len(hist) >= 2 /\ Last.op = "learn" /\ Ok(Last)
  /\ Units >= 2
  /\ \E p \in Positions :
       \E k \in 1..D : heap[network.map[p[1]][p[2]].weights][k] \notin InitValues

====
